---- MODULE Spec2Model ----
(***************************************************************************)
(* The JWT bearer grant type of lib/grant-types/jwt-bearer.js as a state   *)
(* machine: construction of the grant type, then grant invocations         *)
(* handle(request, client) whose promise chain (getUser, saveToken, the    *)
(* Promise.all join over five producers, model.saveToken) is interleaved   *)
(* with the answers of the collaborators.                                  *)
(***************************************************************************)
EXTENDS Integers, Sequences, FiniteSets, TLC

\* The grant invocations that are followed: two, so that one call can follow
\* or overlap another.
Invocations == {1, 2}

\* JavaScript's undefined / null, for string-valued slots.
Undefined == "undefined"

\* !v for the string-valued slots: undefined, null and "" are falsy.
Falsy(v) == v \in {Undefined, ""}

(***************************************************************************)
(* Errors: a kind (the constructor) and a message.  Messages are written   *)
(* without the backquotes the source puts around parameter names.          *)
(***************************************************************************)
NoError == [kind |-> "none", message |-> ""]

InvalidArgumentError(msg) == [kind |-> "InvalidArgument", message |-> msg]

InvalidGrantError(msg) == [kind |-> "InvalidGrant", message |-> msg]

InvalidRequestError(msg) == [kind |-> "InvalidRequest", message |-> msg]

\* What the JavaScript runtime raises on a property read of undefined or on
\* a call of something that is no function.
TypeError(msg) == [kind |-> "TypeError", message |-> msg]

(***************************************************************************)
(* Inputs.                                                                 *)
(***************************************************************************)
\* options.model as handed to the constructor: absent, or an object that has
\* or lacks each of the three methods.
NoModel ==
    [present |-> FALSE, getUser |-> FALSE, getUserFromJWT |-> FALSE, saveToken |-> FALSE]

Models ==
    {NoModel} \cup
    {[present |-> TRUE, getUser |-> g, getUserFromJWT |-> j, saveToken |-> s] :
        g \in BOOLEAN, j \in BOOLEAN, s \in BOOLEAN}

Assertions == {"jwt"}

RequestedScopes == {"read write"}

NoRequest ==
    [present |-> FALSE, hasBody |-> FALSE, assertion |-> Undefined, scope |-> Undefined]

\* A request object that carries no body.
NoBodyRequest ==
    [present |-> TRUE, hasBody |-> FALSE, assertion |-> Undefined, scope |-> Undefined]

Requests ==
    {NoRequest, NoBodyRequest} \cup
    {[present |-> TRUE, hasBody |-> TRUE, assertion |-> a, scope |-> s] :
        a \in Assertions \cup {Undefined, ""}, s \in RequestedScopes}

Clients == {"c1"}

Users == {"u1"}

(***************************************************************************)
(* Collaborators and what they may answer.                                 *)
(***************************************************************************)
\* The fns array of saveToken, in its order.
Producers ==
    <<"validateScope", "generateAccessToken", "generateRefreshToken",
      "getAccessTokenExpiresAt", "getRefreshTokenExpiresAt">>

ProducerNames == {Producers[k] : k \in 1..Len(Producers)}

Collaborators == {"getScope", "getUserFromJWT", "saveToken"} \cup ProducerNames

\* The values a producer may deliver.
ProducerValues(p) ==
    CASE p = "validateScope" -> {"read write", "read"}
      [] p = "generateAccessToken" -> {"tok_A", "tok_B"}
      [] p = "generateRefreshToken" -> {"tok_R"}
      [] p = "getAccessTokenExpiresAt" -> {"T1"}
      [] p = "getRefreshTokenExpiresAt" -> {"T2"}

\* The error a producer may fail with.
ProducerError(p) ==
    IF p = "validateScope"
    THEN [kind |-> "InvalidScope", message |-> "Invalid scope"]
    ELSE [kind |-> "ServerError", message |-> p]

\* The errors model.getUserFromJWT may raise: any kind, any message.
ResolverErrors ==
    {[kind |-> k, message |-> m] :
        k \in {"Error", "TokenExpired"}, m \in {"jwt expired", "jwt malformed"}}

StoreError == [kind |-> "ServerError", message |-> "saveToken failed"]

NoToken == [undefined |-> TRUE]

NoSave == [token |-> NoToken, client |-> Undefined, user |-> Undefined]

\* What model.saveToken may return for a token: the record itself, an
\* enriched copy, or nothing.
StoreAnswers == {"same", "enriched", "nothing"}

StoreReturn(token, a) ==
    CASE a = "same" -> token
      [] a = "enriched" ->
            [accessToken |-> token.accessToken,
             accessTokenExpiresAt |-> token.accessTokenExpiresAt,
             refreshToken |-> token.refreshToken,
             refreshTokenExpiresAt |-> token.refreshTokenExpiresAt,
             scope |-> token.scope,
             id |-> "row"]
      [] a = "nothing" -> NoToken

(***************************************************************************)
(* State.                                                                  *)
(***************************************************************************)
VARIABLES
    handler,      \* the grant type object: state of construction, this.model
    pc,           \* per invocation: where its promise chain stands
    request,      \* per invocation: the request argument of handle
    client,       \* per invocation: the client argument of handle
    scope,        \* per invocation: var scope of handle
    resolved,     \* per invocation: what model.getUserFromJWT answered
    user,         \* per invocation: the value getUser's promise fulfilled with
    prod,         \* per invocation: state of each of the five producer promises
    values,       \* per invocation: the values Promise.all has collected
    saved,        \* per invocation: the arguments of the model.saveToken call
    stored,       \* per invocation: what model.saveToken returned
    result,       \* per invocation: what the caller of handle got
    calls,        \* per invocation: how often each collaborator was invoked
    finishedBefore, \* per invocation: the invocations settled when it was called
    args          \* per invocation: the arguments each producer was invoked with

vars ==
    <<handler, pc, request, client, scope, resolved, user, prod, values, saved,
      stored, result, calls, finishedBefore, args>>

\* The arguments of a producer call; NoArgs for a producer not invoked.
NoArgs == [client |-> Undefined, user |-> Undefined, scope |-> Undefined]

Pending == [status |-> "pending", error |-> NoError, value |-> NoToken]

Thrown(e) == [status |-> "thrown", error |-> e, value |-> NoToken]

\* An outcome for a chain that swallows the error and delivers nothing.
RejectedSwallowed(e) ==
    [status |-> "fulfilled", error |-> [kind |-> "none", message |-> ""],
     value |-> NoToken]

Rejected(e) == [status |-> "rejected", error |-> e, value |-> NoToken]

Fulfilled(v) == [status |-> "fulfilled", error |-> NoError, value |-> v]

NoValues == [p \in ProducerNames |-> Undefined]

\* What model.getUserFromJWT answered: nothing yet, a value, or an error.
NotResolved == [outcome |-> "none", user |-> Undefined, error |-> NoError]

Returned(u) == [outcome |-> "returned", user |-> u, error |-> NoError]

Raised(e) == [outcome |-> "raised", user |-> Undefined, error |-> e]

\* The answers of model.getUserFromJWT that are no user: null, empty.
NoUsers == {Undefined, ""}

Init ==
    /\ handler = [state |-> "none", model |-> NoModel, error |-> NoError]
    /\ pc = [i \in Invocations |-> "idle"]
    /\ request = [i \in Invocations |-> NoRequest]
    /\ client = [i \in Invocations |-> Undefined]
    /\ scope = [i \in Invocations |-> Undefined]
    /\ resolved = [i \in Invocations |-> NotResolved]
    /\ user = [i \in Invocations |-> Undefined]
    /\ prod = [i \in Invocations |-> [p \in ProducerNames |-> "notcalled"]]
    /\ values = [i \in Invocations |-> NoValues]
    /\ saved = [i \in Invocations |-> NoSave]
    /\ stored = [i \in Invocations |-> NoToken]
    /\ result = [i \in Invocations |-> Pending]
    /\ calls = [i \in Invocations |-> [c \in Collaborators |-> 0]]
    /\ finishedBefore = [i \in Invocations |-> {}]
    /\ args = [i \in Invocations |-> [p \in ProducerNames |-> NoArgs]]

(***************************************************************************)
(* The constructor.                                                        *)
(***************************************************************************)
\* The error the constructor throws for options.model = m, NoError if none.
ConstructorError(m) ==
    IF ~m.present THEN InvalidArgumentError("Missing parameter: model")
    ELSE IF ~m.getUser
    THEN InvalidArgumentError("Invalid argument: model does not implement getUser()")
    ELSE IF ~m.saveToken
    THEN InvalidArgumentError("Invalid argument: model does not implement saveToken()")
    ELSE NoError

\* AbstractGrantType.call(this, options): keeps options.model as this.model.
AbstractGrantType(m) == [state |-> "constructed", model |-> m, error |-> NoError]

JWTBearerGrantType(m) ==
    /\ handler.state = "none"
    /\ handler' =
          IF ConstructorError(m) # NoError
          THEN [state |-> "failed", model |-> m, error |-> ConstructorError(m)]
          ELSE AbstractGrantType(m)
    /\ UNCHANGED <<pc, request, client, scope, resolved, user, prod, values, saved,
                   stored, result, calls, finishedBefore, args>>

(***************************************************************************)
(* handle(request, client).                                                *)
(***************************************************************************)
\* The argument checks of handle without the check of client.
HandleArgumentErrorNoClientCheck(req, cl) ==
    IF ~req.present THEN InvalidArgumentError("Missing parameter: request")
    ELSE NoError

\* The argument checks of handle: the error thrown, NoError if none.
HandleArgumentError(req, cl) ==
    IF ~req.present THEN InvalidArgumentError("Missing parameter: request")
    ELSE IF Falsy(cl) THEN InvalidArgumentError("Missing parameter: client")
    ELSE NoError

\* this.getScope(request): the requested scope carried by the request.
getScope(req) == IF req.hasBody THEN req.scope ELSE Undefined

Invoke(i, cs) == [calls EXCEPT ![i] = [c \in Collaborators |->
                     IF c \in cs THEN calls[i][c] + 1 ELSE calls[i][c]]]

Settled(i) == result[i].status # "pending"

\* Invocations are numbered in the order of the calls.
handle(i, req, cl) ==
    /\ handler.state = "constructed"
    /\ pc[i] = "idle"
    /\ \A j \in Invocations : j < i => pc[j] # "idle"
    /\ request' = [request EXCEPT ![i] = req]
    /\ client' = [client EXCEPT ![i] = cl]
    /\ finishedBefore' = [finishedBefore EXCEPT ![i] =
                             {j \in Invocations : Settled(j)}]
    /\ IF HandleArgumentError(req, cl) # NoError
       THEN /\ result' = [result EXCEPT ![i] = Thrown(HandleArgumentError(req, cl))]
            /\ pc' = [pc EXCEPT ![i] = "done"]
            /\ UNCHANGED <<scope, calls>>
       ELSE /\ scope' = [scope EXCEPT ![i] = getScope(req)]
            /\ calls' = Invoke(i, {"getScope"})
            /\ pc' = [pc EXCEPT ![i] = "getUser"]
            /\ UNCHANGED result
    /\ UNCHANGED <<handler, resolved, user, prod, values, saved, stored, args>>

(***************************************************************************)
(* getUser(request), run by the first then-callback of handle.             *)
(***************************************************************************)
\* What getUser throws before the resolver is reached, NoError if nothing.
GetUserError(req, m) ==
    IF ~req.hasBody
    THEN TypeError("Cannot read property 'assertion' of undefined")
    ELSE IF Falsy(req.assertion)
    THEN InvalidRequestError("Missing parameter: assertion")
    ELSE IF ~m.getUserFromJWT
    THEN TypeError("this.model.getUserFromJWT is not a function")
    ELSE NoError

getUser(i) ==
    /\ pc[i] = "getUser"
    /\ IF GetUserError(request[i], handler.model) # NoError
       THEN /\ result' = [result EXCEPT ![i] =
                             Rejected(GetUserError(request[i], handler.model))]
            /\ pc' = [pc EXCEPT ![i] = "done"]
            /\ UNCHANGED calls
       ELSE /\ calls' = Invoke(i, {"getUserFromJWT"})
            /\ pc' = [pc EXCEPT ![i] = "resolving"]
            /\ UNCHANGED result
    /\ UNCHANGED <<handler, request, client, scope, resolved, user, prod, values,
                   saved, stored, finishedBefore, args>>

\* A then-callback that passes on whatever the resolver answered.
ThenErrorNoCheck(u) == NoError

\* The then-callback of getUser: the error it throws for the resolver's
\* answer u, NoError if it returns u.
ThenError(u) ==
    IF Falsy(u) THEN InvalidGrantError("Invalid grant: jwt is invalid") ELSE NoError

\* A catch-callback that reports every failure with one message of its own.
CatchErrorOwnMessage(e) == InvalidGrantError("Invalid grant: user not resolved")

\* A catch-callback that passes the error on as it is.
CatchErrorRethrow(e) == e

\* The catch-callback of getUser: the error it throws for the error e.
CatchError(e) == InvalidGrantError(e.message)

\* model.getUserFromJWT answers u (a user, or nothing).
getUserFromJWTReturns(i, u) ==
    /\ pc[i] = "resolving"
    /\ resolved' = [resolved EXCEPT ![i] = Returned(u)]
    /\ IF ThenError(u) # NoError
       THEN /\ result' = [result EXCEPT ![i] = Rejected(CatchError(ThenError(u)))]
            /\ pc' = [pc EXCEPT ![i] = "done"]
            /\ UNCHANGED user
       ELSE /\ user' = [user EXCEPT ![i] = u]
            /\ pc' = [pc EXCEPT ![i] = "saveToken"]
            /\ UNCHANGED result
    /\ UNCHANGED <<handler, request, client, scope, prod, values, saved, stored,
                   calls, finishedBefore, args>>

\* model.getUserFromJWT raises e.
getUserFromJWTFails(i, e) ==
    /\ pc[i] = "resolving"
    /\ resolved' = [resolved EXCEPT ![i] = Raised(e)]
    /\ result' = [result EXCEPT ![i] = Rejected(CatchError(e))]
    /\ pc' = [pc EXCEPT ![i] = "done"]
    /\ UNCHANGED <<handler, request, client, scope, user, prod, values, saved,
                   stored, calls, finishedBefore, args>>

(***************************************************************************)
(* saveToken(user, client, scope), run by the second then-callback of      *)
(* handle.                                                                 *)
(***************************************************************************)
\* Producer calls in which only the scope validator is given the scope.
ProducerArgsScopeToValidatorOnly(p, u, c, s) ==
    IF p = "validateScope" THEN [client |-> c, user |-> u, scope |-> s]
    ELSE IF p \in {"generateAccessToken", "generateRefreshToken"}
    THEN [client |-> c, user |-> u, scope |-> Undefined]
    ELSE NoArgs

\* The arguments saveToken(user, client, scope) hands to producer p: its own
\* three parameters for the scope validator and the two generators, none for
\* the two expiry functions.
ProducerArgs(p, u, c, s) ==
    IF p \in {"validateScope", "generateAccessToken", "generateRefreshToken"}
    THEN [client |-> c, user |-> u, scope |-> s]
    ELSE NoArgs

\* A saveToken that invokes the scope validator alone and leaves the other
\* four producers for later.
saveTokenValidatorFirst(i) ==
    /\ prod' = [prod EXCEPT ![i]["validateScope"] = "pending"]
    /\ args' = [args EXCEPT ![i]["validateScope"] =
                   ProducerArgs("validateScope", user[i], client[i], scope[i])]
    /\ calls' = Invoke(i, {"validateScope"})
    /\ pc' = [pc EXCEPT ![i] = "joining"]

\* The five producers are invoked, in the order of fns; Promise.all then
\* waits for their promises.
saveToken(i) ==
    /\ prod' = [prod EXCEPT ![i] = [p \in ProducerNames |-> "pending"]]
    /\ args' = [args EXCEPT ![i] =
                   [p \in ProducerNames |-> ProducerArgs(p, user[i], client[i], scope[i])]]
    /\ calls' = Invoke(i, ProducerNames)
    /\ pc' = [pc EXCEPT ![i] = "joining"]

\* A then-callback that answers from an earlier grant for the same assertion
\* and client instead of running saveToken again.
thenSaveTokenCached(i) ==
    /\ pc[i] = "saveToken"
    /\ IF \E j \in Invocations \ {i} :
             /\ result[j].status = "fulfilled"
             /\ request[j].assertion = request[i].assertion
             /\ client[j] = client[i]
       THEN /\ \E j \in Invocations \ {i} :
                  /\ result[j].status = "fulfilled"
                  /\ request[j].assertion = request[i].assertion
                  /\ client[j] = client[i]
                  /\ result' = [result EXCEPT ![i] = result[j]]
            /\ pc' = [pc EXCEPT ![i] = "done"]
            /\ UNCHANGED <<prod, calls, args>>
       ELSE /\ saveToken(i)
            /\ UNCHANGED result
    /\ UNCHANGED <<handler, request, client, scope, resolved, user, values, saved,
                   stored, finishedBefore>>

\* The second then-callback of handle: return this.saveToken(user, client, scope).
thenSaveToken(i) ==
    /\ pc[i] = "saveToken"
    /\ saveToken(i)
    /\ UNCHANGED <<handler, request, client, scope, resolved, user, values, saved,
                   stored, result, finishedBefore>>

\* A join that takes no notice of a rejection and waits for five values.
PromiseAllIgnoresRejection(st) ==
    IF \A p \in ProducerNames : st[p] = "fulfilled" THEN "fulfilled" ELSE "pending"

\* A join that goes on as soon as one promise is fulfilled.
PromiseAny(st) ==
    IF \E p \in ProducerNames : st[p] = "fulfilled" THEN "fulfilled"
    ELSE IF \A p \in ProducerNames : st[p] = "rejected" THEN "rejected"
    ELSE "pending"

\* A join that waits until every promise is settled and then goes on.
PromiseAllSettled(st) ==
    IF \A p \in ProducerNames : st[p] \in {"fulfilled", "rejected"} THEN "fulfilled"
    ELSE "pending"

\* Promise.all over the states st of the five promises: rejected as soon as
\* one is rejected, fulfilled once all are fulfilled.
PromiseAll(st) ==
    IF \E p \in ProducerNames : st[p] = "rejected" THEN "rejected"
    ELSE IF \A p \in ProducerNames : st[p] = "fulfilled" THEN "fulfilled"
    ELSE "pending"

\* A chain that folds every failure into InvalidGrant, as getUser does.
PropagateNormalized(e) == InvalidGrantError(e.message)

\* The error the caller of handle gets for a rejection with e of Promise.all
\* or of model.saveToken: neither saveToken nor handle has a catch, so the
\* rejection passes unchanged through spread and the then-callbacks.
Propagate(e) == e

\* Producer p delivers v.  Promise.all keeps the value while it is pending.
producerFulfils(i, p, v) ==
    /\ prod[i][p] = "pending"
    /\ prod' = [prod EXCEPT ![i][p] = "fulfilled"]
    /\ values' = IF pc[i] = "joining" THEN [values EXCEPT ![i][p] = v] ELSE values
    /\ UNCHANGED <<handler, pc, request, client, scope, resolved, user, saved,
                   stored, result, calls, finishedBefore, args>>

\* A failure of producer p that is reported to the caller whenever it
\* comes, also after an earlier failure has been reported.
producerRejectsLate(i, p) ==
    /\ prod[i][p] = "pending"
    /\ prod' = [prod EXCEPT ![i][p] = "rejected"]
    /\ IF pc[i] \in {"joining", "done"}
       THEN /\ result' = [result EXCEPT ![i] = Rejected(ProducerError(p))]
            /\ values' = [values EXCEPT ![i] = NoValues]
            /\ pc' = [pc EXCEPT ![i] = "done"]
       ELSE UNCHANGED <<result, values, pc>>
    /\ UNCHANGED <<handler, request, client, scope, resolved, user, saved, stored,
                   calls, finishedBefore, args>>

\* Producer p fails.  A pending Promise.all is rejected with p's error and
\* drops what it has collected; the rejection passes through spread and
\* through handle's chain to the caller.  The other producers are left running.
producerRejects(i, p) ==
    /\ prod[i][p] = "pending"
    /\ prod' = [prod EXCEPT ![i][p] = "rejected"]
    /\ IF pc[i] = "joining" /\ PromiseAll(prod'[i]) = "rejected"
       THEN /\ result' = [result EXCEPT ![i] = Rejected(Propagate(ProducerError(p)))]
            /\ values' = [values EXCEPT ![i] = NoValues]
            /\ pc' = [pc EXCEPT ![i] = "done"]
       ELSE UNCHANGED <<result, values, pc>>
    /\ UNCHANGED <<handler, request, client, scope, resolved, user, saved, stored,
                   calls, finishedBefore, args>>

\* A token record with the two expiry instants exchanged.
TokenExpiriesSwapped(vs) ==
    [accessToken |-> vs["generateAccessToken"],
     accessTokenExpiresAt |-> vs["getRefreshTokenExpiresAt"],
     refreshToken |-> vs["generateRefreshToken"],
     refreshTokenExpiresAt |-> vs["getAccessTokenExpiresAt"],
     scope |-> vs["validateScope"]]

\* The token record the spread callback builds from the collected values.
Token(vs) ==
    [accessToken |-> vs["generateAccessToken"],
     accessTokenExpiresAt |-> vs["getAccessTokenExpiresAt"],
     refreshToken |-> vs["generateRefreshToken"],
     refreshTokenExpiresAt |-> vs["getRefreshTokenExpiresAt"],
     scope |-> vs["validateScope"]]

\* A spread callback that takes the client from the grant type object, where
\* the latest call of handle has left it.
spreadSharedClient(i) ==
    /\ pc[i] = "joining"
    /\ PromiseAll(prod[i]) = "fulfilled"
    /\ \E last \in Invocations :
          /\ pc[last] # "idle"
          /\ \A k \in Invocations : pc[k] # "idle" => k <= last
          /\ saved' = [saved EXCEPT ![i] =
                          [token |-> Token(values[i]), client |-> client[last],
                           user |-> user[i]]]
    /\ calls' = Invoke(i, {"saveToken"})
    /\ pc' = [pc EXCEPT ![i] = "saving"]
    /\ UNCHANGED <<handler, request, client, scope, resolved, user, prod, values,
                   stored, result, finishedBefore, args>>

\* The spread callback, run once Promise.all is fulfilled: the token is
\* built and model.saveToken(token, client, user) is invoked.
spread(i) ==
    /\ pc[i] = "joining"
    /\ PromiseAll(prod[i]) = "fulfilled"
    /\ saved' = [saved EXCEPT ![i] =
                    [token |-> Token(values[i]), client |-> client[i], user |-> user[i]]]
    /\ calls' = Invoke(i, {"saveToken"})
    /\ pc' = [pc EXCEPT ![i] = "saving"]
    /\ UNCHANGED <<handler, request, client, scope, resolved, user, prod, values,
                   stored, result, finishedBefore, args>>

\* A spread callback that returns the token it built.
HandleValueBuiltToken(v, token) == token

\* What handle's promise is fulfilled with, given the value v that
\* model.saveToken delivered for the token: the spread callback returns the
\* promise of model.saveToken, and handle returns that chain.
HandleValue(v, token) == v

\* model.saveToken answers in the way a.
modelSaveTokenReturns(i, a) ==
    /\ pc[i] = "saving"
    /\ stored' = [stored EXCEPT ![i] = StoreReturn(saved[i].token, a)]
    /\ result' = [result EXCEPT ![i] =
                     Fulfilled(HandleValue(stored'[i], saved[i].token))]
    /\ pc' = [pc EXCEPT ![i] = "done"]
    /\ UNCHANGED <<handler, request, client, scope, resolved, user, prod, values,
                   saved, calls, finishedBefore, args>>

\* model.saveToken fails.
modelSaveTokenFails(i) ==
    /\ pc[i] = "saving"
    /\ result' = [result EXCEPT ![i] = Rejected(Propagate(StoreError))]
    /\ pc' = [pc EXCEPT ![i] = "done"]
    /\ UNCHANGED <<handler, request, client, scope, resolved, user, prod, values,
                   saved, stored, calls, finishedBefore, args>>

(***************************************************************************)
(* The specification.                                                      *)
(***************************************************************************)
Next ==
    \/ \E m \in Models : JWTBearerGrantType(m)
    \/ \E i \in Invocations, req \in Requests, cl \in Clients \cup {Undefined} :
          handle(i, req, cl)
    \/ \E i \in Invocations : getUser(i)
    \/ \E i \in Invocations, u \in Users \cup NoUsers : getUserFromJWTReturns(i, u)
    \/ \E i \in Invocations, e \in ResolverErrors : getUserFromJWTFails(i, e)
    \/ \E i \in Invocations : thenSaveToken(i)
    \/ \E i \in Invocations, p \in ProducerNames :
          \E v \in ProducerValues(p) : producerFulfils(i, p, v)
    \/ \E i \in Invocations, p \in ProducerNames : producerRejects(i, p)
    \/ \E i \in Invocations : spread(i)
    \/ \E i \in Invocations, a \in StoreAnswers : modelSaveTokenReturns(i, a)
    \/ \E i \in Invocations : modelSaveTokenFails(i)

Spec == Init /\ [][Next]_vars

(***************************************************************************)
(* The same operations with every value marked by the invocation it        *)
(* belongs to: each invocation has a client, an assertion, a requested     *)
(* scope, a user and producer results of its own, so that a value that     *)
(* strays from one invocation into the other shows.                        *)
(***************************************************************************)
OwnClient(i) == <<"c1", "c2">>[i]

OwnUser(i) == <<"u1", "u2">>[i]

OwnRequest(i) ==
    [present |-> TRUE, hasBody |-> TRUE,
     assertion |-> <<"jwt1", "jwt2">>[i], scope |-> <<"read write", "mail send">>[i]]

OwnValue(i, p) ==
    CASE p = "validateScope" -> <<"read", "mail">>[i]
      [] p = "generateAccessToken" -> <<"tok_A1", "tok_A2">>[i]
      [] p = "generateRefreshToken" -> <<"tok_R1", "tok_R2">>[i]
      [] p = "getAccessTokenExpiresAt" -> <<"T1", "T3">>[i]
      [] p = "getRefreshTokenExpiresAt" -> <<"T2", "T4">>[i]

NextOwn ==
    \/ \E m \in Models : JWTBearerGrantType(m)
    \/ \E i \in Invocations : handle(i, OwnRequest(i), OwnClient(i))
    \/ \E i \in Invocations : getUser(i)
    \/ \E i \in Invocations : getUserFromJWTReturns(i, OwnUser(i))
    \/ \E i \in Invocations, e \in ResolverErrors : getUserFromJWTFails(i, e)
    \/ \E i \in Invocations : thenSaveToken(i)
    \/ \E i \in Invocations, p \in ProducerNames : producerFulfils(i, p, OwnValue(i, p))
    \/ \E i \in Invocations, p \in ProducerNames : producerRejects(i, p)
    \/ \E i \in Invocations : spread(i)
    \/ \E i \in Invocations, a \in StoreAnswers : modelSaveTokenReturns(i, a)
    \/ \E i \in Invocations : modelSaveTokenFails(i)

SpecOwn == Init /\ [][NextOwn]_vars

(***************************************************************************)
(* Progress.  The callbacks of a promise chain are run by the event loop   *)
(* once their promise is settled, and every collaborator that was invoked  *)
(* is taken to answer in the end, with a result or with an error.          *)
(***************************************************************************)
ResolverAnswers(i) ==
    \/ \E u \in Users \cup NoUsers : getUserFromJWTReturns(i, u)
    \/ \E e \in ResolverErrors : getUserFromJWTFails(i, e)

ProducerAnswers(i, p) ==
    \/ \E v \in ProducerValues(p) : producerFulfils(i, p, v)
    \/ producerRejects(i, p)

StoreAnswersCall(i) ==
    \/ \E a \in StoreAnswers : modelSaveTokenReturns(i, a)
    \/ modelSaveTokenFails(i)

Fairness ==
    \A i \in Invocations :
        /\ WF_vars(getUser(i))
        /\ WF_vars(ResolverAnswers(i))
        /\ WF_vars(thenSaveToken(i))
        /\ \A p \in ProducerNames : WF_vars(ProducerAnswers(i, p))
        /\ WF_vars(spread(i))
        /\ WF_vars(StoreAnswersCall(i))

\* The steps of invocation i.
NextOf(i) ==
    \/ \E req \in Requests, cl \in Clients \cup {Undefined} : handle(i, req, cl)
    \/ getUser(i)
    \/ ResolverAnswers(i)
    \/ thenSaveToken(i)
    \/ \E p \in ProducerNames : ProducerAnswers(i, p)
    \/ spread(i)
    \/ StoreAnswersCall(i)

\* One invocation followed to its end: no step of an invocation reads or
\* writes anything of another one, so its progress is its own.
NextSolo ==
    \/ \E m \in Models : JWTBearerGrantType(m)
    \/ NextOf(1)

FairSpec == Init /\ [][NextSolo]_vars /\ Fairness

(***************************************************************************)
(* Properties.                                                             *)
(***************************************************************************)
Called(i) == pc[i] # "idle"

ArgumentsPresent(i) == request[i].present /\ ~Falsy(client[i])

NoCollaboratorInvoked(i) ==
    /\ \A c \in Collaborators : calls[i][c] = 0
    /\ \A p \in ProducerNames : prod[i][p] = "notcalled"
    /\ saved[i] = NoSave

\* C1: a call of handle in which request or client is absent fails with
\* InvalidArgument, and no collaborator has been invoked for it, then or later.
C1_MissingArgument ==
    \A i \in Invocations :
        (Called(i) /\ ~ArgumentsPresent(i)) =>
            /\ result[i].status = "thrown"
            /\ result[i].error.kind = "InvalidArgument"
            /\ NoCollaboratorInvoked(i)

\* A call with a complete request and no client has failed, while the other
\* invocation has got as far as the token store.
C1_Witness ==
    \E i \in Invocations :
        /\ request[i].present /\ request[i].assertion = "jwt" /\ Falsy(client[i])
        /\ result[i].status = "thrown"
        /\ \E j \in Invocations \ {i} : calls[j]["saveToken"] = 1

AssertionMissing(i) == ~request[i].hasBody \/ Falsy(request[i].assertion)

\* C2: a request whose assertion is empty or absent, a request without body
\* included, fails with InvalidRequest, and the identity resolver is never
\* invoked for it.
C2_MissingAssertion ==
    \A i \in Invocations :
        (Called(i) /\ ArgumentsPresent(i) /\ AssertionMissing(i)) =>
            /\ calls[i]["getUserFromJWT"] = 0
            /\ pc[i] = "done" =>
                  /\ result[i].status = "rejected"
                  /\ result[i].error.kind = "InvalidRequest"

\* C3: when the resolver completes without error and returns no user, the
\* grant fails with InvalidGrant and the message "Invalid grant: jwt is invalid".
C3_NoUser ==
    \A i \in Invocations :
        (resolved[i].outcome = "returned" /\ Falsy(resolved[i].user)) =>
            /\ result[i].status = "rejected"
            /\ result[i].error.kind = "InvalidGrant"
            /\ result[i].error.message = "Invalid grant: jwt is invalid"

\* The resolver has answered an invocation with nothing.
C3_Witness ==
    \E i \in Invocations :
        /\ calls[i]["getUserFromJWT"] = 1
        /\ resolved[i] = Returned(Undefined)
        /\ pc[i] = "done"

\* C4: when the resolver raises an error of any kind with message M, the
\* grant fails with an error of kind InvalidGrant whose message is M.
C4_ResolverError ==
    \A i \in Invocations :
        resolved[i].outcome = "raised" =>
            /\ result[i].status = "rejected"
            /\ result[i].error.kind = "InvalidGrant"
            /\ result[i].error.message = resolved[i].error.message

\* The resolver has raised an error of a kind of its own.
C4_Witness ==
    \E i \in Invocations :
        /\ calls[i]["getUserFromJWT"] = 1
        /\ resolved[i] = Raised([kind |-> "TokenExpired", message |-> "jwt expired"])
        /\ pc[i] = "done"

AllFulfilled(i) == \A p \in ProducerNames : prod[i][p] = "fulfilled"

\* C5: with the resolver returning U and the five producers delivering S, A,
\* R, Ea and Er, in whatever order, model.saveToken is invoked exactly once,
\* with the record of exactly these five values, the client that was passed
\* to handle and the user U.
C5_SavedRecord ==
    \A i \in Invocations :
        /\ calls[i]["saveToken"] >= 1 =>
              /\ calls[i]["saveToken"] = 1
              /\ AllFulfilled(i)
              /\ saved[i].token =
                    [accessToken |-> values[i]["generateAccessToken"],
                     accessTokenExpiresAt |-> values[i]["getAccessTokenExpiresAt"],
                     refreshToken |-> values[i]["generateRefreshToken"],
                     refreshTokenExpiresAt |-> values[i]["getRefreshTokenExpiresAt"],
                     scope |-> values[i]["validateScope"]]
              /\ saved[i].client = client[i]
              /\ saved[i].user = resolved[i].user
              /\ resolved[i].outcome = "returned"
        /\ (pc[i] = "done" /\ AllFulfilled(i)) => calls[i]["saveToken"] = 1

\* A token with a narrowed scope has been handed to the store.
C5_Witness ==
    \E i \in Invocations :
        /\ calls[i]["saveToken"] = 1
        /\ saved[i] =
              [token |-> [accessToken |-> "tok_B", accessTokenExpiresAt |-> "T1",
                          refreshToken |-> "tok_R", refreshTokenExpiresAt |-> "T2",
                          scope |-> "read"],
               client |-> "c1", user |-> "u1"]

\* C6: when one of the five producers fails, model.saveToken is never
\* invoked for that invocation, whatever the others do and in whatever order.
C6_NoPartialSave ==
    \A i \in Invocations :
        (\E p \in ProducerNames : prod[i][p] = "rejected") =>
            /\ calls[i]["saveToken"] = 0
            /\ saved[i] = NoSave

\* One producer has failed after the other four had delivered.
C6_Witness ==
    \E i \in Invocations :
        /\ prod[i]["getRefreshTokenExpiresAt"] = "rejected"
        /\ \A p \in ProducerNames \ {"getRefreshTokenExpiresAt"} :
              prod[i][p] = "fulfilled"
        /\ result[i] = Rejected(ProducerError("getRefreshTokenExpiresAt"))

\* C7: when handle succeeds, the caller gets the value that the one
\* model.saveToken call of the invocation returned.
C7_ReturnsStoreValue ==
    \A i \in Invocations :
        result[i].status = "fulfilled" =>
            /\ calls[i]["saveToken"] = 1
            /\ result[i].value = stored[i]

\* handle has succeeded with a value that is not the record it built.
C7_Witness ==
    \E i \in Invocations :
        /\ result[i].status = "fulfilled"
        /\ stored[i] # saved[i].token
        /\ stored[i] # NoToken

\* C8: construction without an identity-resolution capability or without a
\* token-persistence capability fails with InvalidArgument, so that a
\* constructed handler has the operation getUser invokes and no request
\* fails for want of it.
C8_ConstructionChecksResolver ==
    /\ (handler.state # "none" /\
        ~(handler.model.present /\ handler.model.getUserFromJWT
            /\ handler.model.saveToken)) =>
            /\ handler.state = "failed"
            /\ handler.error.kind = "InvalidArgument"
    /\ handler.state = "constructed" => handler.model.getUserFromJWT
    /\ \A i \in Invocations :
          result[i].error # TypeError("this.model.getUserFromJWT is not a function")

\* C9: within one invocation every collaborator is invoked at most once, and
\* the resolver exactly once whenever the request carries a non-empty
\* assertion.
C9_AtMostOnce ==
    \A i \in Invocations :
        /\ \A c \in Collaborators : calls[i][c] <= 1
        /\ (pc[i] = "done" /\ ArgumentsPresent(i) /\ ~AssertionMissing(i)) =>
              calls[i]["getUserFromJWT"] = 1

\* C10: two successful calls of handle with the same assertion and client
\* each invoke the resolver, the five producers and model.saveToken once, so
\* that the store gets two calls, with different records when the generators
\* deliver different values.
C10_NotIdempotent ==
    \A i, j \in Invocations :
        (/\ i # j
         /\ result[i].status = "fulfilled" /\ result[j].status = "fulfilled"
         /\ request[i].assertion = request[j].assertion
         /\ client[i] = client[j]) =>
            /\ \A c \in Collaborators \ {"getScope"} :
                  calls[i][c] = 1 /\ calls[j][c] = 1
            /\ calls[i]["saveToken"] + calls[j]["saveToken"] = 2
            /\ saved[i] # NoSave /\ saved[j] # NoSave
            /\ values[i]["generateAccessToken"] # values[j]["generateAccessToken"]
                  => saved[i].token # saved[j].token

\* The second call was made after the first had succeeded, with the same
\* assertion and client, and has stored a second, different token.
C10_Witness ==
    /\ 1 \in finishedBefore[2]
    /\ result[1].status = "fulfilled" /\ result[2].status = "fulfilled"
    /\ request[1].assertion = request[2].assertion
    /\ client[1] = client[2]
    /\ saved[1].token # saved[2].token

Reported(i) ==
    /\ result[i].status \in {"thrown", "rejected"}
    /\ result[i].error # NoError
    /\ result[i].value = NoToken

\* C11 as claimed: every invocation of handle ends either in a reported
\* error or in a non-empty token; no path, the token store returning nothing
\* included, hands the caller an empty result.
C11_NoSilentEmpty ==
    \A i \in Invocations :
        pc[i] = "done" =>
            \/ Reported(i)
            \/ result[i].status = "fulfilled" /\ result[i].value # NoToken

\* C11 as amended: every invocation of handle ends either in a reported error
\* or in the value model.saveToken returned, after the resolver returned a
\* user, all five producers delivered and model.saveToken was invoked once;
\* the caller gets an empty result only when model.saveToken returned nothing.
C11_ReportedOrStoreValue ==
    \A i \in Invocations :
        pc[i] = "done" =>
            \/ Reported(i)
            \/ /\ result[i].status = "fulfilled"
               /\ resolved[i].outcome = "returned" /\ ~Falsy(resolved[i].user)
               /\ AllFulfilled(i)
               /\ calls[i]["saveToken"] = 1
               /\ result[i].value = stored[i]

\* model.saveToken returned nothing and handle has succeeded with nothing.
C11_Witness ==
    \E i \in Invocations :
        /\ pc[i] = "done"
        /\ calls[i]["saveToken"] = 1
        /\ result[i] = Fulfilled(NoToken)

\* C12: the collaborator calls of one invocation are ordered: the resolver is
\* invoked only for valid arguments and a present assertion, each of the five
\* producers only after the resolver has returned a user, model.saveToken
\* only after all five producers have delivered, and handle returns a value
\* only after model.saveToken has been invoked.
C12_StageOrder ==
    \A i \in Invocations :
        /\ calls[i]["getUserFromJWT"] >= 1 =>
              ArgumentsPresent(i) /\ ~AssertionMissing(i) /\ calls[i]["getScope"] = 1
        /\ \A p \in ProducerNames :
              (prod[i][p] # "notcalled" \/ calls[i][p] >= 1) =>
                  /\ resolved[i].outcome = "returned"
                  /\ ~Falsy(resolved[i].user)
                  /\ user[i] = resolved[i].user
        /\ (calls[i]["saveToken"] >= 1 \/ saved[i] # NoSave) => AllFulfilled(i)
        /\ result[i].status = "fulfilled" => calls[i]["saveToken"] = 1

\* One invocation waits for the token store, all five producers having
\* delivered, while the other still waits for the resolver.
C12_Witness ==
    \E i \in Invocations :
        /\ pc[i] = "saving" /\ AllFulfilled(i)
        /\ \E j \in Invocations \ {i} : pc[j] = "resolving"

ResolutionFailed(i) ==
    /\ Called(i) /\ ArgumentsPresent(i)
    /\ \/ pc[i] = "done" /\ AssertionMissing(i)
       \/ resolved[i].outcome = "raised"
       \/ resolved[i].outcome = "returned" /\ Falsy(resolved[i].user)

\* C13: when the resolution of the user fails (assertion missing, resolver
\* returns no user, resolver raises), none of the five producers and not the
\* token store is ever invoked for that invocation, and the failure is its
\* outcome.
C13_ResolutionFailureIsTerminal ==
    \A i \in Invocations :
        ResolutionFailed(i) =>
            /\ \A p \in ProducerNames :
                  prod[i][p] = "notcalled" /\ calls[i][p] = 0 /\ args[i][p] = NoArgs
            /\ calls[i]["saveToken"] = 0 /\ saved[i] = NoSave
            /\ pc[i] = "done" /\ result[i].status = "rejected"

\* The resolver has answered one invocation with an empty user while the
\* other invocation has its five producers running.
C13_Witness ==
    \E i \in Invocations :
        /\ resolved[i] = Returned("")
        /\ \E j \in Invocations \ {i} : pc[j] = "joining"

Issued(i, p) == prod[i][p] # "notcalled"

\* C14: all five producers are invoked before the result of any of them is
\* awaited: whenever one producer of an invocation has been invoked or has
\* answered, all five have been invoked, each once, and each with arguments
\* that are the user, client and scope handed to saveToken, never another
\* producer's result.
C14_IssuedTogether ==
    \A i \in Invocations :
        /\ (\E p \in ProducerNames : Issued(i, p) \/ calls[i][p] >= 1) =>
              \A q \in ProducerNames : Issued(i, q) /\ calls[i][q] = 1
        /\ \A p \in ProducerNames :
              Issued(i, p) =>
                  args[i][p] =
                      IF p \in {"getAccessTokenExpiresAt", "getRefreshTokenExpiresAt"}
                      THEN NoArgs
                      ELSE [client |-> client[i], user |-> user[i], scope |-> scope[i]]

\* The scope validator has answered with a narrowed scope while the two
\* generators, invoked with the requested scope, are still running.
C14_Witness ==
    \E i \in Invocations :
        /\ prod[i]["validateScope"] = "fulfilled"
        /\ values[i]["validateScope"] = "read"
        /\ prod[i]["generateAccessToken"] = "pending"
        /\ prod[i]["generateRefreshToken"] = "pending"
        /\ args[i]["generateAccessToken"].scope = "read write"

FailedByProducer(i) == pc[i] = "done" /\ \E p \in ProducerNames : prod[i][p] = "rejected"

\* C15 as claimed: when one of the five producers fails, its siblings are
\* cancelled: once the failure is reported, no other producer of the
\* invocation is still outstanding.
C15_SiblingsCancelled ==
    \A i \in Invocations :
        FailedByProducer(i) => \A q \in ProducerNames : prod[i][q] # "pending"

\* C15 as amended: the siblings of a failed producer are not cancelled; they
\* may be outstanding when the failure is reported and complete afterwards,
\* but whatever they do then is discarded: the reported failure stays the
\* outcome, nothing is collected and model.saveToken is not invoked.
C15_SiblingsDiscarded ==
    [][\A i \in Invocations :
          FailedByProducer(i) =>
              /\ result[i].status = "rejected"
              /\ result'[i] = result[i]
              /\ pc'[i] = "done"
              /\ values'[i] = NoValues
              /\ saved'[i] = NoSave
              /\ calls'[i]["saveToken"] = 0]_vars

\* The failure of the scope validator has been reported; after that one
\* sibling has failed too, one has delivered and one is still outstanding.
C15_Witness ==
    \E i \in Invocations :
        /\ result[i] = Rejected(ProducerError("validateScope"))
        /\ prod[i]["generateRefreshToken"] = "rejected"
        /\ prod[i]["getAccessTokenExpiresAt"] = "fulfilled"
        /\ prod[i]["generateAccessToken"] = "pending"

\* C16: errors of the five producers and of the token store reach the caller
\* as they are, not normalized to InvalidGrant: a failed grant whose user was
\* resolved reports the error of a producer that failed or, after
\* model.saveToken was invoked, the error of the store; when the scope
\* validator is the producer that failed, the kind is the validator's
\* InvalidScope.
C16_ProducerErrorsSurface ==
    \A i \in Invocations :
        (pc[i] = "done" /\ result[i].status = "rejected"
            /\ resolved[i].outcome = "returned" /\ ~Falsy(resolved[i].user)) =>
            /\ result[i].error.kind # "InvalidGrant"
            /\ calls[i]["saveToken"] = 0 =>
                  \E p \in ProducerNames :
                      prod[i][p] = "rejected" /\ result[i].error = ProducerError(p)
            /\ calls[i]["saveToken"] = 1 => result[i].error = StoreError
            /\ (/\ prod[i]["validateScope"] = "rejected"
                /\ \A q \in ProducerNames \ {"validateScope"} : prod[i][q] # "rejected")
                  => result[i].error.kind = "InvalidScope"

\* The scope validator alone has rejected, the other four have delivered.
C16_Witness ==
    \E i \in Invocations :
        /\ pc[i] = "done"
        /\ prod[i]["validateScope"] = "rejected"
        /\ \A q \in ProducerNames \ {"validateScope"} : prod[i][q] = "fulfilled"
        /\ result[i].error.kind = "InvalidScope"

\* Every value that belongs to invocation j.
OwnValues(j) ==
    {OwnClient(j), OwnUser(j), OwnRequest(j).assertion, OwnRequest(j).scope}
        \cup {OwnValue(j, p) : p \in ProducerNames}

\* The values that were handed to model.saveToken for invocation i.
SavedValues(i) ==
    {saved[i].client, saved[i].user, saved[i].token.accessToken,
     saved[i].token.accessTokenExpiresAt, saved[i].token.refreshToken,
     saved[i].token.refreshTokenExpiresAt, saved[i].token.scope}

\* C17: with two invocations running concurrently on one handler, under
\* every interleaving of the collaborators' answers, the token of an
\* invocation is built from the results of its own five producers and stored
\* with its own client and user; no value of the other invocation appears in
\* its model.saveToken call or in the arguments of its producers.
C17_OwnValuesOnly ==
    \A i \in Invocations :
        /\ saved[i] # NoSave =>
              /\ saved[i] =
                    [token |->
                        [accessToken |-> OwnValue(i, "generateAccessToken"),
                         accessTokenExpiresAt |-> OwnValue(i, "getAccessTokenExpiresAt"),
                         refreshToken |-> OwnValue(i, "generateRefreshToken"),
                         refreshTokenExpiresAt |-> OwnValue(i, "getRefreshTokenExpiresAt"),
                         scope |-> OwnValue(i, "validateScope")],
                     client |-> OwnClient(i),
                     user |-> OwnUser(i)]
              /\ \A j \in Invocations \ {i} : SavedValues(i) \cap OwnValues(j) = {}
        /\ \A p \in ProducerNames, j \in Invocations \ {i} :
              {args[i][p].client, args[i][p].user, args[i][p].scope} \cap OwnValues(j) = {}

\* The second invocation, called while the first was running, has reached
\* the token store while the first is still collecting its producers' results.
C17_Witness ==
    /\ finishedBefore[2] = {}
    /\ pc[1] = "joining"
    /\ \E p \in ProducerNames : prod[1][p] = "fulfilled"
    /\ saved[2] # NoSave

Generators == {"generateAccessToken", "generateRefreshToken"}

\* C18: the two generators are invoked with the requested scope, the one read
\* from the request and handed to the scope validator, not with the
\* validator's result; the scope of the token that is stored is the
\* validator's result.
C18_GeneratorsGetRequestedScope ==
    \A i \in Invocations :
        /\ \A g \in Generators :
              Issued(i, g) =>
                  /\ args[i][g].scope = request[i].scope
                  /\ args[i][g].scope = args[i]["validateScope"].scope
        /\ saved[i] # NoSave => saved[i].token.scope = values[i]["validateScope"]

\* The validator has narrowed the scope: the generators were invoked with
\* "read write" and the token handed to the store has the scope "read".
C18_Witness ==
    \E i \in Invocations :
        /\ saved[i] # NoSave
        /\ saved[i].token.scope = "read"
        /\ \A g \in Generators : args[i][g].scope = "read write"

\* C19: when every collaborator that is invoked answers in the end, every
\* invocation of handle ends, with a token or with a reported error; none
\* waits for ever at the join of the five producers or at any other stage.
C19_Terminates ==
    \A i \in Invocations : (pc[i] # "idle") ~> (pc[i] = "done" /\ Settled(i))

\* An invocation has ended with the error of a producer that failed at the
\* join while another producer had not answered yet.
C19_Witness ==
    \E i \in Invocations :
        /\ pc[i] = "done"
        /\ result[i] = Rejected(ProducerError("generateAccessToken"))
        /\ prod[i]["getRefreshTokenExpiresAt"] = "pending"
        /\ prod[i]["validateScope"] = "fulfilled"

====
